---- MODULE Spec2Model ----
(***************************************************************************)
(* A model of app::ColorWheel, the polar colour selector of                *)
(* src/app/ui/color_wheel.cpp: the hue remapping of the RYB wheel, the     *)
(* pixel -> colour mapping of the CPU rasterizer and of the SkSL shader,   *)
(* the placement of the harmony indicators, the harmony table, the dirty   *)
(* flags and the interruptible background rasterization pass.              *)
(*                                                                         *)
(* Numbers.  A float or double of the program is an exact rational <<n,d>> *)
(* (d > 0, lowest terms).  The wheel radius is kept in tenths of a pixel   *)
(* (the code sets it to r - 0.1).  Sines and cosines are taken from a      *)
(* table in millionths at half-degree steps; square roots and arc tangents *)
(* are never evaluated: every use of them in the code ends in a comparison *)
(* or a truncation, which is decided exactly on integers.                  *)
(***************************************************************************)
EXTENDS Integers, Sequences, FiniteSets, TLC

VARIABLES
  m_discrete,       \* bool: the discrete (snapping) wheel
  m_colorModel,     \* "STANDARD" | "RYB" | "NORMAL_MAP"
  m_harmony,        \* the stored harmony, an int that may be out of range
  m_color,          \* the current selection (ColorSelector::m_color)
  m_paintFlags,     \* set of dirty-region flags (a bit set in the code)
  m_harmonyPicked,  \* bool
  m_wheelRadius,    \* in tenths of a pixel
  mainRc,           \* [w, h]: the size of the main area
  capture,          \* hasCaptureInMainArea()
  stop,             \* the bool& stop of the running background pass
  pc,               \* where the background thread is
  pos,              \* the locals of the background pass (see NoFrame)
  surface,          \* what the background pass has written so far
  call              \* the last operation applied and what it returned

vars == <<m_discrete, m_colorModel, m_harmony, m_color, m_paintFlags,
          m_harmonyPicked, m_wheelRadius, mainRc, capture, stop, pc, pos,
          surface, call>>

(***************************************************************************)
(* Bounds of the model.                                                    *)
(***************************************************************************)
\* hues n/d with d up to this denominator are fed to convertHueAngle
MaxHueDen == 2

\* how far outside the table a stored harmony or a requested index may lie
HarmonyOverrun == 1

\* the side, in pixels, of the main area in the round-trip specification
WheelSize == 60

\* the side, in pixels, of the main area where the two rasterizers are compared
PickSize == 24

\* the width, in pixels, of the main area and of the bottom bar in the
\* specifications of the background pass (the main area is 2 rows high)
PaintWidth == 2

(***************************************************************************)
(* Exact arithmetic standing for float/double arithmetic.                  *)
(***************************************************************************)
Abs(i) == IF i < 0 THEN -i ELSE i

Min(a, b) == IF a < b THEN a ELSE b

Max(a, b) == IF a > b THEN a ELSE b

\* std::clamp on ints
Clamp(i, lo, hi) == IF i < lo THEN lo ELSE IF hi < i THEN hi ELSE i

\* C++ integer division, which truncates toward zero
CDiv(a, b) == IF a >= 0 THEN a \div b ELSE -((-a) \div b)

RECURSIVE Gcd(_, _)
Gcd(a, b) == IF b = 0 THEN a ELSE Gcd(b, a % b)

Rat(n, d) == LET g == Gcd(Abs(n), d) IN <<n \div g, d \div g>>

RatInt(k) == <<k, 1>>

RatAdd(p, q) == Rat(p[1] * q[2] + q[1] * p[2], p[2] * q[2])

RatSub(p, q) == Rat(p[1] * q[2] - q[1] * p[2], p[2] * q[2])

RatTimes(p, k) == Rat(p[1] * k, p[2])

RatOver(p, k) == Rat(p[1], p[2] * k)

RatLt(p, q) == p[1] * q[2] < q[1] * p[2]

\* double -> int conversion: truncation toward zero
RatTrunc(p) == CDiv(p[1], p[2])

\* std::fmod(p, m) for an int m > 0: the result keeps the sign of p
RatFmod(p, m) ==
  IF p[1] >= 0 THEN Rat(p[1] % (m * p[2]), p[2])
  ELSE Rat(-((-p[1]) % (m * p[2])), p[2])

\* std::clamp(p, 0.0, 1.0)
RatClamp01(p) ==
  IF p[1] < 0 THEN RatInt(0) ELSE IF p[1] > p[2] THEN RatInt(1) ELSE p

\* sin, in millionths, of 0, 0.5, 1, ... 90 degrees
SinTable == <<
    0, 8727, 17452, 26177, 34899, 43619, 52336, 61049, 69756, 78459,
    87156, 95846, 104528, 113203, 121869, 130526, 139173, 147809, 156434, 165048,
    173648, 182236, 190809, 199368, 207912, 216440, 224951, 233445, 241922, 250380,
    258819, 267238, 275637, 284015, 292372, 300706, 309017, 317305, 325568, 333807,
    342020, 350207, 358368, 366501, 374607, 382683, 390731, 398749, 406737, 414693,
    422618, 430511, 438371, 446198, 453990, 461749, 469472, 477159, 484810, 492424,
    500000, 507538, 515038, 522499, 529919, 537300, 544639, 551937, 559193, 566406,
    573576, 580703, 587785, 594823, 601815, 608761, 615661, 622515, 629320, 636078,
    642788, 649448, 656059, 662620, 669131, 675590, 681998, 688355, 694658, 700909,
    707107, 713250, 719340, 725374, 731354, 737277, 743145, 748956, 754710, 760406,
    766044, 771625, 777146, 782608, 788011, 793353, 798636, 803857, 809017, 814116,
    819152, 824126, 829038, 833886, 838671, 843391, 848048, 852640, 857167, 861629,
    866025, 870356, 874620, 878817, 882948, 887011, 891007, 894934, 898794, 902585,
    906308, 909961, 913545, 917060, 920505, 923880, 927184, 930418, 933580, 936672,
    939693, 942641, 945519, 948324, 951057, 953717, 956305, 958820, 961262, 963630,
    965926, 968148, 970296, 972370, 974370, 976296, 978148, 979925, 981627, 983255,
    984808, 986286, 987688, 989016, 990268, 991445, 992546, 993572, 994522, 995396,
    996195, 996917, 997564, 998135, 998630, 999048, 999391, 999657, 999848, 999962,
    1000000
>>

\* 1000000 * sin of a2 half-degrees, any integer a2
SinMicro(a2) ==
  LET t == a2 % 720
      q == IF t <= 180 THEN t ELSE IF t <= 360 THEN 360 - t
           ELSE IF t <= 540 THEN t - 360 ELSE 720 - t
  IN IF t <= 360 THEN SinTable[q + 1] ELSE -SinTable[q + 1]

CosMicro(a2) == SinMicro(a2 + 180)

\* the half-degrees of an angle given in degrees as a rational with denominator 1 or 2
HalfDegrees(angle) ==
  CHOOSE a2 \in {(angle[1] * 2) \div angle[2]} : a2 * angle[2] = angle[1] * 2

(***************************************************************************)
(* The colour models and the hue remapping of the RYB wheel.               *)
(***************************************************************************)
ColorModels == {"STANDARD", "RYB", "NORMAL_MAP"}

ConvertHueAngleNoHalving(h, dir) ==
  IF m_colorModel = "RYB" THEN
    IF dir = 1 THEN
      IF h[1] >= 0 /\ RatLt(h, RatInt(120)) THEN RatOver(h, 2)
      ELSE IF RatLt(h, RatInt(180)) THEN RatSub(h, RatInt(60))
      ELSE IF RatLt(h, RatInt(240))
        THEN RatAdd(RatInt(120), RatTimes(RatSub(h, RatInt(180)), 2))
      ELSE h
    ELSE
      IF h[1] >= 0 /\ RatLt(h, RatInt(60)) THEN RatTimes(h, 2)
      ELSE IF RatLt(h, RatInt(120)) THEN RatAdd(RatInt(60), h)
      ELSE IF RatLt(h, RatInt(240))
        THEN RatAdd(RatInt(180), RatSub(h, RatInt(120)))
      ELSE h
  ELSE h

\* ColorWheel::convertHueAngle(float h, int dir)
convertHueAngle(h, dir) ==
  IF m_colorModel = "RYB" THEN
    IF dir = 1 THEN
      IF h[1] >= 0 /\ RatLt(h, RatInt(120)) THEN RatOver(h, 2)
      ELSE IF RatLt(h, RatInt(180)) THEN RatSub(h, RatInt(60))
      ELSE IF RatLt(h, RatInt(240))
        THEN RatAdd(RatInt(120), RatTimes(RatSub(h, RatInt(180)), 2))
      ELSE h
    ELSE
      IF h[1] >= 0 /\ RatLt(h, RatInt(60)) THEN RatTimes(h, 2)
      ELSE IF RatLt(h, RatInt(120)) THEN RatAdd(RatInt(60), h)
      ELSE IF RatLt(h, RatInt(240))
        THEN RatAdd(RatInt(180), RatOver(RatSub(h, RatInt(120)), 2))
      ELSE h
  ELSE h

(***************************************************************************)
(* app::Color, as far as the wheel uses it.                                *)
(***************************************************************************)
NoColor == [type |-> "Mask"]

fromMask == NoColor

fromHsv(h, s, v, a) == [type |-> "Hsv", h |-> h, s |-> s, v |-> v, a |-> a]

fromRgb(r, g, b) == [type |-> "Rgb", r |-> r, g |-> g, b |-> b, a |-> 255]

getHsvHue(c) == IF c.type = "Hsv" THEN c.h ELSE RatInt(0)

getHsvSaturation(c) == IF c.type = "Hsv" THEN c.s ELSE RatInt(0)

getHsvValue(c) == IF c.type = "Hsv" THEN c.v ELSE RatInt(0)

getAlpha(c) == IF c.type = "Mask" THEN 0 ELSE c.a

(***************************************************************************)
(* The harmony table and the harmony colours.                              *)
(***************************************************************************)
harmonies == <<
  [n |-> 1, hues |-> <<0,   0,   0,   0>>, sats |-> <<100,   0,   0,   0>>],
  [n |-> 2, hues |-> <<0, 180,   0,   0>>, sats |-> <<100, 100,   0,   0>>],
  [n |-> 2, hues |-> <<0,   0,   0,   0>>, sats |-> <<100,  50,   0,   0>>],
  [n |-> 3, hues |-> <<0,  30, 330,   0>>, sats |-> <<100, 100, 100,   0>>],
  [n |-> 3, hues |-> <<0, 150, 210,   0>>, sats |-> <<100, 100, 100,   0>>],
  [n |-> 3, hues |-> <<0, 120, 240,   0>>, sats |-> <<100, 100, 100,   0>>],
  [n |-> 4, hues |-> <<0, 120, 180, 300>>, sats |-> <<100, 100, 100, 100>>],
  [n |-> 4, hues |-> <<0,  90, 180, 270>>, sats |-> <<100, 100, 100, 100>>] >>

\* (int)Harmony::LAST: SQUARE, the last row of the table
HarmonyLast == Len(harmonies) - 1

\* Harmony::TRIADIC, the row the table's comment names
TRIADIC == 5

\* the row of the table both getters use
HarmonyRow == harmonies[Clamp(m_harmony, 0, HarmonyLast) + 1]

\* ColorWheel::getHarmonies
getHarmonies == HarmonyRow.n

\* the column read when the index is clamped to the width of the table
\* instead of the number of colours of the harmony
HarmonyIndexTableWidth(j) == Clamp(j, 0, 3)

\* the column getColorInHarmony(j) reads
HarmonyIndex(j) == Clamp(j, 0, HarmonyRow.n - 1)

\* ColorWheel::getColorInHarmony
getColorInHarmony(j) ==
  LET jj  == HarmonyIndex(j)
      hue == RatAdd(convertHueAngle(getHsvHue(m_color), -1),
                    RatInt(HarmonyRow.hues[jj + 1]))
      sat == RatOver(RatTimes(getHsvSaturation(m_color),
                              HarmonyRow.sats[jj + 1]), 100)
  IN fromHsv(RatFmod(hue, 360), RatClamp01(sat), getHsvValue(m_color), 255)

(***************************************************************************)
(* Geometry: angles, distances and products as the code truncates them.    *)
(***************************************************************************)
\* whether the direction of (x, y), y > 0, is at or past k degrees
AtLeastDeg(k, y, x) == CosMicro(2 * k) * y - SinMicro(2 * k) * x >= 0

\* the whole degrees in the angle of (x, y), y >= 0, which lies in [0,180]
FloorDeg(y, x) ==
  IF y = 0 THEN (IF x < 0 THEN 180 ELSE 0)
  ELSE CHOOSE k \in 0..179 : AtLeastDeg(k, y, x) /\ ~AtLeastDeg(k + 1, y, x)

\* int(180.0 * std::atan2(y, x) / PI): truncated toward zero
AtanDegrees(y, x) == IF y >= 0 THEN FloorDeg(y, x) ELSE -FloorDeg(-y, x)

\* d <= m_wheelRadius for d = sqrt(n)
InsideWheel(n) == 100 * n <= m_wheelRadius * m_wheelRadius

\* int(c * d / m_wheelRadius) for d = sqrt(n) inside the wheel
ScaledDistance(c, n) ==
  CHOOSE k \in 0..c :
    /\ (k * m_wheelRadius) * (k * m_wheelRadius) <= 100 * c * c * n
    /\ 100 * c * c * n < ((k + 1) * m_wheelRadius) * ((k + 1) * m_wheelRadius)

\* floor(p / sqrt(n)) for n > 0 and |p| <= bound * sqrt(n)
FloorOverSqrt(p, n, bound) ==
  IF p >= 0
    THEN CHOOSE k \in 0..bound : k * k * n <= p * p /\ p * p < (k + 1) * (k + 1) * n
    ELSE -(CHOOSE k \in 0..bound : (k - 1) * (k - 1) * n < p * p /\ p * p <= k * k * n)

\* int(c * f * dist) for c in millionths, f in tenths and a rational dist in
\* [0,1]: truncated toward zero
TruncScaled(c, f, dist) ==
  LET a  == f * dist[1]
      m  == Abs(c)
      t  == ((m \div 1000) * a + ((m % 1000) * a) \div 1000) \div 1000
      k  == t \div (10 * dist[2])
  IN IF c < 0 THEN -k ELSE k

(***************************************************************************)
(* The dirty flags and the dirty-region decision.                          *)
(***************************************************************************)
MainAreaFlag == "MainArea"

BottomBarFlag == "BottomBar"

AlphaBarFlag == "AlphaBar"

AllAreasFlag == {MainAreaFlag, BottomBarFlag, AlphaBarFlag}

\* flags ^= flag on the bit set
XorFlag(flags, flag) ==
  IF flag \in flags THEN flags \ {flag} ELSE flags \cup {flag}

\* cs_double_diff(a, b): whether a channel changed
cs_double_diff(a, b) == a # b

\* ColorSelector::onNeedsSurfaceRepaint: the base class decides the alpha bar
ColorSelector_onNeedsSurfaceRepaint(newColor) ==
  IF newColor # m_color THEN {AlphaBarFlag} ELSE {}

onNeedsSurfaceRepaintAnyModel(newColor) ==
  (IF cs_double_diff(getHsvValue(m_color), getHsvValue(newColor))
     THEN {MainAreaFlag} ELSE {})
  \cup
  (IF \/ cs_double_diff(getHsvHue(m_color), getHsvHue(newColor))
      \/ cs_double_diff(getHsvSaturation(m_color), getHsvSaturation(newColor))
     THEN {BottomBarFlag} ELSE {})
  \cup ColorSelector_onNeedsSurfaceRepaint(newColor)

\* ColorWheel::onNeedsSurfaceRepaint
onNeedsSurfaceRepaint(newColor) ==
  (IF /\ m_colorModel # "NORMAL_MAP"
      /\ cs_double_diff(getHsvValue(m_color), getHsvValue(newColor))
     THEN {MainAreaFlag} ELSE {})
  \cup
  (IF \/ cs_double_diff(getHsvHue(m_color), getHsvHue(newColor))
      \/ cs_double_diff(getHsvSaturation(m_color), getHsvSaturation(newColor))
     THEN {BottomBarFlag} ELSE {})
  \cup ColorSelector_onNeedsSurfaceRepaint(newColor)

(***************************************************************************)
(* Pixel -> colour: ColorWheel::getMainAreaColor.                          *)
(***************************************************************************)
\* ColorSelector::getCurrentAlphaForNewColor
getCurrentAlphaForNewColor == IF m_color.type # "Mask" THEN getAlpha(m_color) ELSE 255

\* gfx::Rect(x, y, w, h).contains(gfx::Point(px, py))
RectContains(x, y, w, h, px, py) ==
  px >= x /\ px < x + w /\ py >= y /\ py < y + h

\* the harmony swatches whose rectangle holds (_u, _v)
SwatchesAt(_u, umax, _v, vmax) ==
  LET n       == getHarmonies
      boxsize == Min(CDiv(umax, 10), CDiv(vmax, 10))
  IN {i \in 0..(n - 1) :
        RectContains(umax - (n - i) * boxsize, vmax - boxsize,
                     boxsize, boxsize, _u, _v)}

\* the NORMAL_MAP branch: the normal of the offset (u, v)
NormalMapColor(u, v) ==
  LET n    == u * u + v * v
      in   == InsideWheel(n)
      di0  == IF in THEN ScaledDistance(128, n) ELSE 128
      deg  == AtanDegrees(-v, u)
      ai   == CDiv(deg + 360 + 15, 30) * 30
      di   == IF m_discrete THEN CDiv(di0, 32) * 32 ELSE di0
      dcos == IF m_discrete THEN (di * CosMicro(2 * ai)) \div 1000000
              ELSE IF n = 0 THEN di ELSE FloorOverSqrt(di * u, n, di)
      dsin == IF m_discrete THEN (di * SinMicro(2 * ai)) \div 1000000
              ELSE IF n = 0 THEN 0 ELSE FloorOverSqrt(di * (-v), n, di)
  IN IF in \/ capture
       THEN fromRgb(Clamp(128 + dcos, 0, 255), Clamp(128 + dsin, 0, 255),
                    Clamp(255 - di, 128, 255))
       ELSE fromRgb(128, 128, 255)

\* the hue with the modulo taken before the quantization
WheelHueModuloFirst(deg) ==
  LET hue == (deg + 180 + 180 + 30) % 360
  IN IF m_discrete THEN CDiv(hue + 15, 30) * 30 ELSE hue

\* the hue the wheel shows at an angle, before the model's remapping
WheelHue(deg) ==
  LET hue == deg + 180 + 180 + 30
      q   == IF m_discrete THEN CDiv(hue + 15, 30) * 30 ELSE hue
  IN q % 360

\* the saturation, in percent, the wheel shows at distance sqrt(n)
WheelSat(n) ==
  LET in == InsideWheel(n)
  IN IF m_discrete
       THEN CDiv(IF in THEN ScaledDistance(120, n) ELSE 120, 20) * 20
       ELSE IF in THEN ScaledDistance(100, n) ELSE 100

\* the hue branch ("Pick from the wheel")
WheelColor(u, v) ==
  LET n   == u * u + v * v
      hue == RatTrunc(convertHueAngle(RatInt(WheelHue(AtanDegrees(-v, u))), 1))
  IN IF InsideWheel(n) \/ capture
       THEN fromHsv(RatInt(Clamp(hue, 0, 360)),
                    RatClamp01(Rat(WheelSat(n), 100)),
                    IF m_color.type # "Mask" THEN getHsvValue(m_color) ELSE RatInt(1),
                    getCurrentAlphaForNewColor)
       ELSE fromMask

\* ColorWheel::getMainAreaColor: the colour returned and the m_harmonyPicked
\* it leaves
getMainAreaColor(_u, umax, _v, vmax) ==
  LET u    == _u - CDiv(umax, 2)
      v    == _v - CDiv(vmax, 2)
      hits == IF getAlpha(m_color) > 0 THEN SwatchesAt(_u, umax, _v, vmax) ELSE {}
  IN IF hits # {}
       THEN LET i     == CHOOSE i \in hits : \A k \in hits : i <= k
                color == getColorInHarmony(i)
            IN [harmonyPicked |-> TRUE,
                color |-> fromHsv(convertHueAngle(getHsvHue(color), 1),
                                  getHsvSaturation(color), getHsvValue(color),
                                  getAlpha(m_color))]
       ELSE [harmonyPicked |-> FALSE,
             color |-> IF m_colorModel = "NORMAL_MAP" THEN NormalMapColor(u, v)
                       ELSE WheelColor(u, v)]

(***************************************************************************)
(* Colour -> pixel: the indicators of ColorWheel::onPaintMainArea.         *)
(***************************************************************************)
\* m_wheelRadius = max(1.0, min(rc.w, rc.h) / 2.0) - 0.1, in tenths
WheelRadiusOf(rc) == Max(10, 5 * Min(rc.w, rc.h)) - 1

\* the indicator placed at the hue itself, without the 30 degree offset
IndicatorOffsetUnrotated(color, f) ==
  LET a2   == HalfDegrees(getHsvHue(color))
      dist == getHsvSaturation(color)
  IN [x |-> TruncScaled(CosMicro(a2), f, dist),
      y |-> TruncScaled(-SinMicro(a2), f, dist)]

\* where the indicator of a harmony colour goes, relative to the centre of
\* the wheel, for a wheel of radius f tenths
IndicatorOffset(color, f) ==
  LET a2   == HalfDegrees(RatSub(getHsvHue(color), RatInt(30)))
      dist == getHsvSaturation(color)
  IN [x |-> TruncScaled(CosMicro(a2), f, dist),
      y |-> TruncScaled(-SinMicro(a2), f, dist)]

(***************************************************************************)
(* The CPU rasterizer's pixel: the loop bodies of onPaintSurfaceInBgThread.*)
(***************************************************************************)
\* what putPixel gets for pixel (x, y) of a main area of size w x h: a mask
\* colour is replaced by the background, any other colour is made opaque
MainAreaPixel(x, y, w, h) ==
  LET appColor == getMainAreaColor(x, Max(1, w - 1), y, Max(1, h - 1)).color
  IN IF appColor.type # "Mask" THEN [appColor EXCEPT !.a = 255]
     ELSE [type |-> "Back"]

\* what drawRect gets for column x of a bottom bar of width w
BottomBarColumn(x, w) ==
  fromHsv(getHsvHue(m_color), getHsvSaturation(m_color), Rat(x, w), 255)

\* ColorWheel::getBottomBarColor
getBottomBarColor(u, umax) ==
  fromHsv(getHsvHue(m_color), getHsvSaturation(m_color),
          RatClamp01(Rat(u, umax)), getCurrentAlphaForNewColor)

(***************************************************************************)
(* The SkSL programs of getMainAreaShader and getBottomBarShader, with the *)
(* uniforms setShaderParams binds.  The fragment is given by its offset    *)
(* (u, v) = fragcoord - iRes.xy/2 in pixels, and min(iRes.x, iRes.y)/2 is  *)
(* taken to be m_wheelRadius, so that both rasterizers see the same disc.  *)
(***************************************************************************)
iDiscrete == IF m_discrete THEN 1 ELSE 0

iMode == CASE m_colorModel = "STANDARD"   -> 0
           [] m_colorModel = "RYB"        -> 1
           [] m_colorModel = "NORMAL_MAP" -> 2

\* appColorHsv_to_SkV4(m_color): hue (kept in degrees), saturation, value, alpha
iHsv == [x |-> getHsvHue(m_color), y |-> getHsvSaturation(m_color),
         z |-> getHsvValue(m_color), w |-> getAlpha(m_color)]

\* half rybhue_to_rgbhue(half h)
rybhue_to_rgbhue(h) ==
  IF h[1] >= 0 /\ RatLt(h, RatInt(120)) THEN RatOver(h, 2)
  ELSE IF RatLt(h, RatInt(180)) THEN RatSub(h, RatInt(60))
  ELSE IF RatLt(h, RatInt(240))
    THEN RatAdd(RatInt(120), RatTimes(RatSub(h, RatInt(180)), 2))
  ELSE h

\* whether 180 * a / 3.1415 >= m for the angle a of (x, y), y > 0: the
\* shader's PI is short of pi by 29.5 millionths, which moves the threshold
\* back by m * 5147e-10 radians
AtLeastShaderDeg(m, y, x) ==
  LET cross == CosMicro(2 * m) * y - SinMicro(2 * m) * x
      dot   == CosMicro(2 * m) * x + SinMicro(2 * m) * y
  IN cross + (((dot \div 100000) * m * 5147) \div 100000) >= 0

\* floor(180 * a / 3.1415) for the angle a of (x, y), y >= 0
ShaderFloorDeg(y, x) ==
  LET k == FloorDeg(y, x)
  IN IF y > 0 /\ k < 180 /\ AtLeastShaderDeg(k + 1, y, x) THEN k + 1 ELSE k

\* floor(180.0 * atan(y, x) / PI) with the shader's PI
ShaderDegrees(y, x) ==
  IF y >= 0 THEN ShaderFloorDeg(y, x) ELSE -(ShaderFloorDeg(-y, x) + 1)

\* a channel in [0,1], given as num/den, on the 0..255 scale
To255(num, den) == Clamp((255 * num) \div den, 0, 255)

\* half4 main(vec2 fragcoord) of the main-area program
mainShader(u, v) ==
  LET n    == u * u + v * v
      hue0 == (ShaderDegrees(-v, u) + 180 + 180 + 30) % 360
      hue1 == IF iDiscrete # 0 THEN ((hue0 + 15) \div 30) * 30 ELSE hue0
      hue  == IF iMode = 1 THEN rybhue_to_rgbhue(RatInt(hue1)) ELSE RatInt(hue1)
      sat  == IF iDiscrete # 0
                THEN Clamp((ScaledDistance(120, n) \div 20) * 20, 0, 100)
                ELSE ScaledDistance(100, n)
  IN IF InsideWheel(n)
       THEN IF iMode = 2
              THEN [type |-> "Rgb",
                    r |-> To255(m_wheelRadius + 10 * u, 2 * m_wheelRadius),
                    g |-> To255(m_wheelRadius - 10 * v, 2 * m_wheelRadius),
                    b |-> Clamp(255 - (ScaledDistance(255, n) \div 2), 127, 255),
                    a |-> 255]
              ELSE fromHsv(hue, Rat(sat, 100),
                           IF iHsv.w > 0 THEN iHsv.z ELSE RatInt(1), 255)
       ELSE IF iMode = 2 THEN [type |-> "Rgb", r |-> 127, g |-> 127, b |-> 255, a |-> 255]
            ELSE [type |-> "Back"]

\* half4 main(vec2 fragcoord) of the bottom-bar program, for the fragment
\* at the centre of column x of a bar of width w
bottomShader(x, w) ==
  fromHsv(iHsv.x, iHsv.y, Rat(2 * x + 1, 2 * w), 255)

(***************************************************************************)
(* The handlers of the pointer interaction.                                *)
(***************************************************************************)
\* the rasterizer's and the pointer handler's umax, vmax
UMax == Max(1, mainRc.w - 1)

VMax == Max(1, mainRc.h - 1)

\* the pointer is pressed on pixel (_u, _v) of the main area
MouseMove ==
  /\ call.op = "none"
  /\ \E _u \in 0..UMax, _v \in 0..VMax :
       LET got == getMainAreaColor(_u, UMax, _v, VMax)
       IN /\ call' = [op |-> "pick", u |-> _u - CDiv(UMax, 2),
                      v |-> _v - CDiv(VMax, 2), color |-> got.color]
          /\ m_harmonyPicked' = got.harmonyPicked
  /\ UNCHANGED <<m_discrete, m_colorModel, m_harmony, m_color, m_paintFlags,
                 m_wheelRadius, mainRc, capture, stop, pc, pos, surface>>

\* ColorSelector::selectColor: the picked colour becomes the selection
SelectColor ==
  /\ call.op = "pick"
  /\ call.color.type = "Hsv"
  /\ m_paintFlags' = m_paintFlags \cup onNeedsSurfaceRepaint(call.color)
  /\ m_color' = call.color
  /\ call' = [call EXCEPT !.op = "selected"]
  /\ UNCHANGED <<m_discrete, m_colorModel, m_harmony, m_harmonyPicked,
                 m_wheelRadius, mainRc, capture, stop, pc, pos, surface>>

\* ColorWheel::onPaintMainArea for the hue models: the radius is taken from
\* the area and one indicator is placed per harmony colour
OnPaintMainArea ==
  /\ call.op = "selected"
  /\ m_colorModel # "NORMAL_MAP"
  /\ m_wheelRadius' = WheelRadiusOf(mainRc)
  /\ LET count == IF getAlpha(m_color) > 0 THEN getHarmonies ELSE 0
     IN call' = [op |-> "painted", u |-> call.u, v |-> call.v,
                 color |-> call.color,
                 indicators |->
                   [i \in 0..(count - 1) |->
                      IndicatorOffset(getColorInHarmony(i), WheelRadiusOf(mainRc))]]
  /\ UNCHANGED <<m_discrete, m_colorModel, m_harmony, m_color, m_paintFlags,
                 m_harmonyPicked, mainRc, capture, stop, pc, pos, surface>>

(***************************************************************************)
(* One pixel and one column through both rasterizers.                      *)
(***************************************************************************)
\* pixel (x, y) of the main area: the body of the loops of
\* onPaintSurfaceInBgThread, and the main-area program for the same fragment
RasterizePixel ==
  /\ call.op = "none"
  /\ \E x \in 0..(mainRc.w - 1), y \in 0..(mainRc.h - 1) :
       /\ call' = [op |-> "raster",
                   u |-> x - CDiv(UMax, 2), v |-> y - CDiv(VMax, 2),
                   cpu |-> MainAreaPixel(x, y, mainRc.w, mainRc.h),
                   gpu |-> mainShader(x - CDiv(UMax, 2), y - CDiv(VMax, 2))]
       /\ m_harmonyPicked' = getMainAreaColor(x, UMax, y, VMax).harmonyPicked
  /\ UNCHANGED <<m_discrete, m_colorModel, m_harmony, m_color, m_paintFlags,
                 m_wheelRadius, mainRc, capture, stop, pc, pos, surface>>

\* column x of the bottom bar, as wide as the main area
RasterizeColumn ==
  /\ call.op = "none"
  /\ \E x \in 0..(mainRc.w - 1) :
       call' = [op |-> "bar", x |-> x,
                cpu |-> BottomBarColumn(x, mainRc.w),
                gpu |-> bottomShader(x, mainRc.w)]
  /\ UNCHANGED <<m_discrete, m_colorModel, m_harmony, m_color, m_paintFlags,
                 m_harmonyPicked, m_wheelRadius, mainRc, capture, stop, pc,
                 pos, surface>>

(***************************************************************************)
(* The parts of the state an operation under study does not touch.         *)
(***************************************************************************)
\* the locals of the background pass: the loop counters, the flags ^= has
\* loaded, and the pixels or columns the current loop has written
NoFrame == [x |-> 0, y |-> 0, flags |-> {}, written |-> {}]

IdlePainter ==
  /\ m_paintFlags = {}
  /\ stop = FALSE
  /\ pc = "idle"
  /\ pos = NoFrame
  /\ surface = [main |-> <<>>, bottom |-> <<>>]

(***************************************************************************)
(* The background pass, ColorWheel::onPaintSurfaceInBgThread, one step per *)
(* loop test, and the setters of the interaction thread.  A pixel of the   *)
(* surface is recorded by the discrete flag getMainAreaColor read for it:  *)
(* {} before the first putPixel, {m_discrete} afterwards.                  *)
(***************************************************************************)
MainPixels == (0..(mainRc.w - 1)) \X (0..(mainRc.h - 1))

BottomColumns == 0..(mainRc.w - 1)

PassVars == <<m_discrete, m_colorModel, m_harmony, m_color, m_harmonyPicked,
              m_wheelRadius, mainRc, capture, call>>

\* the painter thread of ColorSelector enters the pass with stop reset
StartPaint ==
  /\ pc = "idle"
  /\ m_paintFlags # {}
  /\ stop' = FALSE
  /\ pc' = "main_test"
  /\ pos' = NoFrame
  /\ UNCHANGED <<PassVars, m_paintFlags, surface>>

\* the owner of the pass asks it to stop
RequestStop ==
  /\ pc # "idle"
  /\ ~stop
  /\ stop' = TRUE
  /\ UNCHANGED <<PassVars, m_paintFlags, pc, pos, surface>>

\* if (m_paintFlags & MainAreaFlag)
MainTest ==
  /\ pc = "main_test"
  /\ IF MainAreaFlag \in m_paintFlags
       THEN pc' = "main_rows" /\ pos' = [NoFrame EXCEPT !.flags = pos.flags]
       ELSE pc' = "bottom_test" /\ pos' = pos
  /\ UNCHANGED <<PassVars, m_paintFlags, stop, surface>>

\* for (int y=0; y<main.h && !stop; ++y)
MainRows ==
  /\ pc = "main_rows"
  /\ IF pos.y < mainRc.h /\ ~stop
       THEN pc' = "main_row" /\ pos' = [pos EXCEPT !.x = 0]
       ELSE pc' = "main_done" /\ pos' = pos
  /\ UNCHANGED <<PassVars, m_paintFlags, stop, surface>>

\* for (int x=0; x<main.w && !stop; ++x) { ... putPixel ... }
MainRow ==
  /\ pc = "main_row"
  /\ IF pos.x < mainRc.w /\ ~stop
       THEN /\ surface' = [surface EXCEPT !.main[<<pos.x, pos.y>>] = {m_discrete}]
            /\ pos' = [pos EXCEPT !.x = pos.x + 1,
                                  !.written = pos.written \cup {<<pos.x, pos.y>>}]
            /\ pc' = pc
       ELSE /\ pos' = [pos EXCEPT !.y = pos.y + 1]
            /\ pc' = "main_rows"
            /\ surface' = surface
  /\ UNCHANGED <<PassVars, m_paintFlags, stop>>

MainDoneNoStopTest ==
  /\ pc = "main_done"
  /\ pc' = "main_xor"
  /\ pos' = [pos EXCEPT !.flags = m_paintFlags]
  /\ UNCHANGED <<PassVars, m_paintFlags, stop, surface>>

\* if (stop) return; and the load of m_paintFlags ^= MainAreaFlag
MainDone ==
  /\ pc = "main_done"
  /\ IF stop
       THEN pc' = "idle" /\ pos' = pos
       ELSE pc' = "main_xor" /\ pos' = [pos EXCEPT !.flags = m_paintFlags]
  /\ UNCHANGED <<PassVars, m_paintFlags, stop, surface>>

\* the store of m_paintFlags ^= MainAreaFlag
MainXor ==
  /\ pc = "main_xor"
  /\ m_paintFlags' = XorFlag(pos.flags, MainAreaFlag)
  /\ pc' = "bottom_test"
  /\ UNCHANGED <<PassVars, stop, pos, surface>>

\* if (m_paintFlags & BottomBarFlag)
BottomTest ==
  /\ pc = "bottom_test"
  /\ IF BottomBarFlag \in m_paintFlags
       THEN pc' = "bottom_columns" /\ pos' = [NoFrame EXCEPT !.flags = pos.flags]
       ELSE pc' = "base" /\ pos' = pos
  /\ UNCHANGED <<PassVars, m_paintFlags, stop, surface>>

\* for (int x=0; x<bottom.w && !stop; ++x) { ... drawRect ... }
BottomColumnsLoop ==
  /\ pc = "bottom_columns"
  /\ IF pos.x < mainRc.w /\ ~stop
       THEN /\ surface' = [surface EXCEPT !.bottom[pos.x] = TRUE]
            /\ pos' = [pos EXCEPT !.x = pos.x + 1,
                                  !.written = pos.written \cup {pos.x}]
            /\ pc' = pc
       ELSE /\ pc' = "bottom_done"
            /\ pos' = pos
            /\ surface' = surface
  /\ UNCHANGED <<PassVars, m_paintFlags, stop>>

\* if (stop) return; and the load of m_paintFlags ^= BottomBarFlag
BottomDone ==
  /\ pc = "bottom_done"
  /\ IF stop
       THEN pc' = "idle" /\ pos' = pos
       ELSE pc' = "bottom_xor" /\ pos' = [pos EXCEPT !.flags = m_paintFlags]
  /\ UNCHANGED <<PassVars, m_paintFlags, stop, surface>>

\* the store of m_paintFlags ^= BottomBarFlag
BottomXor ==
  /\ pc = "bottom_xor"
  /\ m_paintFlags' = XorFlag(pos.flags, BottomBarFlag)
  /\ pc' = "base"
  /\ UNCHANGED <<PassVars, stop, pos, surface>>

\* ColorSelector::onPaintSurfaceInBgThread: the alpha bar, then the return
ColorSelector_onPaintSurfaceInBgThread ==
  /\ pc = "base"
  /\ m_paintFlags' = IF stop THEN m_paintFlags ELSE m_paintFlags \ {AlphaBarFlag}
  /\ pc' = "idle"
  /\ UNCHANGED <<PassVars, stop, pos, surface>>

onPaintSurfaceInBgThread ==
  \/ MainTest \/ MainRows \/ MainRow \/ MainDone \/ MainXor
  \/ BottomTest \/ BottomColumnsLoop \/ BottomDone \/ BottomXor
  \/ ColorSelector_onPaintSurfaceInBgThread

\* ColorWheel::setDiscrete
setDiscrete(state) ==
  /\ m_paintFlags' = IF m_discrete # state THEN AllAreasFlag ELSE m_paintFlags
  /\ m_discrete' = state
  /\ UNCHANGED <<m_colorModel, m_harmony, m_color, m_harmonyPicked,
                 m_wheelRadius, mainRc, capture, call, stop, pc, pos, surface>>

\* ColorWheel::setColorModel
setColorModel(colorModel) ==
  /\ m_colorModel' = colorModel
  /\ UNCHANGED <<m_discrete, m_harmony, m_color, m_paintFlags, m_harmonyPicked,
                 m_wheelRadius, mainRc, capture, call, stop, pc, pos, surface>>

\* ColorWheel::setHarmony
setHarmony(harmony) ==
  /\ m_harmony' = harmony
  /\ UNCHANGED <<m_discrete, m_colorModel, m_color, m_paintFlags, m_harmonyPicked,
                 m_wheelRadius, mainRc, capture, call, stop, pc, pos, surface>>

\* a click on the Discrete item of the options menu
ToggleDiscrete == setDiscrete(~m_discrete)

\* the colour bar switches the wheel to another model
SwitchColorModel == \E colorModel \in ColorModels : setColorModel(colorModel)

\* a click on a harmony item of the options menu
ChooseHarmony == \E harmony \in {0, TRIADIC} : setHarmony(harmony)

(***************************************************************************)
(* Specification SpecHue: convertHueAngle applied forth and back.          *)
(***************************************************************************)
HueInputs ==
  UNION {{Rat(n, d) : n \in 0..(360 * d - 1)} : d \in 1..MaxHueDen}

InitHue ==
  /\ m_colorModel \in ColorModels
  /\ m_discrete = FALSE
  /\ m_harmony = 0
  /\ m_color = NoColor
  /\ m_harmonyPicked = FALSE
  /\ m_wheelRadius = 9
  /\ mainRc = [w |-> 2, h |-> 2]
  /\ capture = FALSE
  /\ IdlePainter
  /\ \E h \in HueInputs : call = [op |-> "hue", h0 |-> h]

ConvertForth ==
  /\ call.op = "hue"
  /\ \E dir \in {-1, 1} :
       call' = [op |-> "converted", h0 |-> call.h0, dir |-> dir,
                h1 |-> convertHueAngle(call.h0, dir)]
  /\ UNCHANGED <<m_discrete, m_colorModel, m_harmony, m_color, m_paintFlags,
                 m_harmonyPicked, m_wheelRadius, mainRc, capture, stop, pc,
                 pos, surface>>

ConvertBack ==
  /\ call.op = "converted"
  /\ call' = [op |-> "roundtrip", h0 |-> call.h0, dir |-> call.dir,
              h1 |-> call.h1, h2 |-> convertHueAngle(call.h1, -call.dir)]
  /\ UNCHANGED <<m_discrete, m_colorModel, m_harmony, m_color, m_paintFlags,
                 m_harmonyPicked, m_wheelRadius, mainRc, capture, stop, pc,
                 pos, surface>>

NextHue == ConvertForth \/ ConvertBack

SpecHue == InitHue /\ [][NextHue]_vars

\* C1: converting a hue of [0,360) to the RYB frame and back, or to the RGB
\* frame and back, returns the hue itself, in every colour model.
HueRoundTrip ==
  call.op = "roundtrip" => call.h2 = call.h0

\* C1 witness: a hue of the halved segment went through the RYB maps
HueRoundTripWitness ==
  /\ call.op = "roundtrip"
  /\ m_colorModel = "RYB"
  /\ call.dir = -1
  /\ call.h0 = <<241, 2>>
  /\ call.h1 = <<721, 4>>
  /\ call.h2 = call.h0

(***************************************************************************)
(* Specification SpecHarmony: the harmony colours of a base colour.        *)
(***************************************************************************)
HarmonyHues == {Rat(15 * k, 2) : k \in 0..47}

HarmonySats == {RatInt(0), <<1, 2>>, RatInt(1)}

InitHarmony ==
  /\ m_colorModel \in ColorModels
  /\ m_discrete = FALSE
  /\ m_harmony \in (0 - HarmonyOverrun)..(HarmonyLast + HarmonyOverrun)
  /\ \E h \in HarmonyHues, s \in HarmonySats :
       m_color = fromHsv(h, s, <<4, 5>>, 255)
  /\ m_harmonyPicked = FALSE
  /\ m_wheelRadius = 9
  /\ mainRc = [w |-> 2, h |-> 2]
  /\ capture = FALSE
  /\ IdlePainter
  /\ call = [op |-> "none"]

GetColorInHarmony ==
  /\ \E j \in (0 - HarmonyOverrun)..(3 + HarmonyOverrun) :
       call' = [op |-> "harmony", j |-> j, n |-> getHarmonies,
                index |-> HarmonyIndex(j), color |-> getColorInHarmony(j)]
  /\ UNCHANGED <<m_discrete, m_colorModel, m_harmony, m_color, m_paintFlags,
                 m_harmonyPicked, m_wheelRadius, mainRc, capture, stop, pc,
                 pos, surface>>

NextHarmony == GetColorInHarmony

SpecHarmony == InitHarmony /\ [][NextHarmony]_vars

\* whether p - q is a whole multiple of 360
SameAngle(p, q) ==
  LET diff == RatSub(p, q) IN diff[2] = 1 /\ diff[1] % 360 = 0

\* C8: a pattern has 1 to 4 colours; colour j, with j clamped into the
\* pattern, reads a column below n, has the base hue (in the RYB frame when
\* the model is RYB) plus the column's offset brought into [0,360), the base
\* saturation scaled by the column's percentage within [0,1] and the base
\* value; red at full saturation with TRIADIC gives hues 0, 120, 240.
HarmonyColors ==
  call.op = "harmony" =>
    LET row   == harmonies[Clamp(m_harmony, 0, HarmonyLast) + 1]
        c     == call.color
        scale == row.sats[call.index + 1]
    IN /\ call.n \in 1..4
       /\ call.n = row.n
       /\ call.index \in 0..(call.n - 1)
       /\ (call.j \in 0..(call.n - 1) => call.index = call.j)
       /\ c.h[1] >= 0 /\ RatLt(c.h, RatInt(360))
       /\ SameAngle(c.h, RatAdd(convertHueAngle(m_color.h, -1),
                                RatInt(row.hues[call.index + 1])))
       /\ c.s[1] >= 0 /\ c.s[1] <= c.s[2]
       /\ c.s[1] * m_color.s[2] * 100 = m_color.s[1] * scale * c.s[2]
       /\ c.v = m_color.v
       /\ (m_harmony = TRIADIC /\ m_color.h = RatInt(0) /\ m_color.s = RatInt(1)
             => /\ call.n = 3
                /\ c.s = RatInt(1)
                /\ c.h = RatInt(120 * call.index))

\* C8 witness: an index beyond the pattern, clamped to the last TRIADIC colour
HarmonyColorsWitness ==
  /\ call.op = "harmony"
  /\ m_harmony = TRIADIC
  /\ m_color.h = RatInt(0)
  /\ m_color.s = RatInt(1)
  /\ call.j = 3 + HarmonyOverrun
  /\ call.index = 2
  /\ call.color.h = RatInt(240)

(***************************************************************************)
(* Specification SpecDirty: the dirty-region decision for a new colour.    *)
(***************************************************************************)
DirtyColors ==
  {fromHsv(RatInt(h), s, v, 255) :
     h \in {0, 10}, s \in {<<1, 2>>, RatInt(1)}, v \in {<<1, 2>>, <<4, 5>>}}
  \cup {NoColor}

InitDirty ==
  /\ m_colorModel \in ColorModels
  /\ m_discrete = FALSE
  /\ m_harmony = 0
  /\ m_color \in DirtyColors
  /\ m_harmonyPicked = FALSE
  /\ m_wheelRadius = 9
  /\ mainRc = [w |-> 2, h |-> 2]
  /\ capture = FALSE
  /\ IdlePainter
  /\ call = [op |-> "none"]

OnNeedsSurfaceRepaint ==
  /\ \E newColor \in DirtyColors :
       call' = [op |-> "repaint", newColor |-> newColor,
                flags |-> onNeedsSurfaceRepaint(newColor)]
  /\ UNCHANGED <<m_discrete, m_colorModel, m_harmony, m_color, m_paintFlags,
                 m_harmonyPicked, m_wheelRadius, mainRc, capture, stop, pc,
                 pos, surface>>

NextDirty == OnNeedsSurfaceRepaint

SpecDirty == InitDirty /\ [][NextDirty]_vars

\* the channel of a colour as the decision reads it (a mask colour reads 0)
Channel(c, f) == IF c.type = "Hsv" THEN c[f] ELSE RatInt(0)

TETRADIC == 6

InitWheel ==
  /\ m_colorModel \in {"STANDARD", "RYB"}
  /\ m_discrete \in BOOLEAN
  /\ m_harmony = TETRADIC
  /\ m_color \in {NoColor, fromHsv(RatInt(17), RatInt(1), <<4, 5>>, 255)}
  /\ m_harmonyPicked = FALSE
  /\ mainRc = [w |-> WheelSize, h |-> WheelSize]
  /\ m_wheelRadius = WheelRadiusOf(mainRc)
  /\ capture = FALSE
  /\ IdlePainter
  /\ call = [op |-> "none"]

NextWheel == MouseMove \/ SelectColor \/ OnPaintMainArea

SpecWheel == InitWheel /\ [][NextWheel]_vars

\* the pointer was on the wheel, off the harmony swatches
PickedOnWheel ==
  /\ call.op \in {"pick", "selected", "painted"}
  /\ InsideWheel(call.u * call.u + call.v * call.v)
  /\ ~m_harmonyPicked

\* how far the first indicator lies from the pressed pixel, per coordinate
IndicatorError ==
  Max(Abs(call.indicators[0].x - call.u), Abs(call.indicators[0].y - call.v))

\* C2 as stated: every pixel of the wheel gets its indicator within 1 pixel
RoundTripWithinOnePixel ==
  (call.op = "painted" /\ InsideWheel(call.u * call.u + call.v * call.v))
    => (0 \in DOMAIN call.indicators /\ IndicatorError <= 1)

\* C2 amended: off the harmony swatches, the indicator of the picked colour
\* lies less than 1 + 0.045 * radius pixels from the pressed pixel in each
\* coordinate with the discrete flag off (so within 1 pixel up to a radius
\* of 22 pixels), and less than 1 + 0.45 * radius with the flag on, where it
\* is the position of the snapped colour.
RoundTripWithinTolerance ==
  (call.op = "painted" /\ PickedOnWheel) =>
    /\ 0 \in DOMAIN call.indicators
    /\ IF m_discrete
         THEN 1000 * IndicatorError < 1000 + 45 * m_wheelRadius
         ELSE 10000 * IndicatorError < 10000 + 45 * m_wheelRadius

\* C2 witness: a continuous RYB pick whose indicator lands 2 pixels away
RoundTripWitness ==
  /\ call.op = "painted"
  /\ PickedOnWheel
  /\ ~m_discrete
  /\ m_colorModel = "RYB"
  /\ IndicatorError = 2

\* C3 as stated: with the discrete flag on every pixel of the wheel gets a
\* hue that is a multiple of 30 in [0,360)
DiscreteHueMultipleOf30 ==
  (call.op = "pick" /\ m_discrete
     /\ InsideWheel(call.u * call.u + call.v * call.v)) =>
    /\ call.color.h[2] = 1
    /\ call.color.h[1] % 30 = 0
    /\ call.color.h[1] \in 0..359

\* C3 amended: with the discrete flag on, a pixel of the wheel off the
\* harmony swatches gets a hue in [0,360) that is a multiple of 30 in the
\* STANDARD model and the RGB hue of a multiple of 30 of the RYB wheel in the
\* RYB model: one of 0, 15, 30, 45, 60, 90, 120, 180, 240, 270, 300, 330.
DiscreteHueSnapped ==
  (call.op = "pick" /\ m_discrete /\ PickedOnWheel) =>
    /\ call.color.h[2] = 1
    /\ call.color.h[1] \in 0..359
    /\ (m_colorModel = "STANDARD" => call.color.h[1] % 30 = 0)
    /\ (m_colorModel = "RYB" =>
          call.color.h[1] \in {0, 15, 30, 45, 60, 90, 120, 180, 240, 270, 300, 330})

\* C3 witness: a discrete RYB pick in the orange sector, hue 15
DiscreteHueWitness ==
  /\ call.op = "pick"
  /\ m_discrete
  /\ PickedOnWheel
  /\ m_colorModel = "RYB"
  /\ call.color.h = RatInt(15)

(***************************************************************************)
(* Specification SpecPick: one pointer position, one rasterized pixel or   *)
(* one rasterized column, in every colour model.                           *)
(***************************************************************************)
InitPick ==
  /\ m_colorModel \in ColorModels
  /\ m_discrete \in BOOLEAN
  /\ m_harmony = TETRADIC
  /\ m_color \in {NoColor,
                  fromHsv(RatInt(17), RatInt(1), <<4, 5>>, 255),
                  fromHsv(RatInt(17), RatInt(1), <<4, 5>>, 0)}
  /\ m_harmonyPicked = FALSE
  /\ mainRc = [w |-> PickSize, h |-> PickSize]
  /\ m_wheelRadius = WheelRadiusOf(mainRc)
  /\ capture \in BOOLEAN
  /\ IdlePainter
  /\ call = [op |-> "none"]

NextPick == MouseMove \/ RasterizePixel \/ RasterizeColumn

SpecPick == InitPick /\ [][NextPick]_vars

\* C4: in NORMAL_MAP a pixel farther from the centre than the radius (the
\* distance being the one the pick uses, which a capture limits to the
\* radius) and the centre pixel get the neutral normal (128,128,255),
\* whatever the selection, its alpha, the harmony and the discrete flag.
NormalMapNeutral ==
  (call.op = "pick" /\ m_colorModel = "NORMAL_MAP") =>
    LET n == call.u * call.u + call.v * call.v
    IN ((~InsideWheel(n) /\ ~capture) \/ n = 0)
         => call.color = fromRgb(128, 128, 255)

\* the distance between two hues around the circle, in half degrees
HueGap(h1, h2) ==
  LET g == (HalfDegrees(h1) - HalfDegrees(h2)) % 720 IN Min(g, 720 - g)

\* whether two rationals differ by at most num/den
RatNear(p, q, num, den) ==
  LET diff == RatSub(p, q) IN den * Abs(diff[1]) <= num * diff[2]

\* two colours equal up to rounding: RGB channels within 2 of 255, hues
\* within 2 degrees (unless the colour is unsaturated), saturations and
\* values within 5 percent
SameUpToRounding(c, g) ==
  \/ c.type = "Back" /\ g.type = "Back"
  \/ /\ c.type = "Rgb" /\ g.type = "Rgb"
     /\ Abs(c.r - g.r) <= 2 /\ Abs(c.g - g.g) <= 2 /\ Abs(c.b - g.b) <= 2
  \/ /\ c.type = "Hsv" /\ g.type = "Hsv"
     /\ RatNear(c.s, g.s, 1, 20)
     /\ RatNear(c.v, g.v, 1, 20)
     /\ (RatNear(c.s, RatInt(0), 1, 20) \/ HueGap(c.h, g.h) <= 4)

\* C7: for every pixel of the main area and every column of the bottom bar
\* the CPU rasterizer and the shader program give the same colour up to
\* rounding, in every colour model and for both values of the discrete flag.
\* Stated for the pixels where the two are meant to agree: no mouse capture,
\* the pixel not on a harmony swatch, the selection unset or not transparent.
ShaderMatchesRasterizer ==
  ( /\ call.op \in {"raster", "bar"}
    /\ ~capture
    /\ ~m_harmonyPicked
    /\ (m_color.type = "Mask" \/ getAlpha(m_color) > 0) )
    => SameUpToRounding(call.cpu, call.gpu)

(***************************************************************************)
(* Specifications of the background pass.  In SpecPass the setters run     *)
(* between passes only; in Spec they run at any moment of a pass, as the   *)
(* interaction thread does.                                                *)
(***************************************************************************)
Init ==
  /\ m_colorModel \in ColorModels
  /\ m_discrete \in BOOLEAN
  /\ m_harmony = 0
  /\ m_color = NoColor
  /\ m_harmonyPicked = FALSE
  /\ mainRc = [w |-> PaintWidth, h |-> 2]
  /\ m_wheelRadius = WheelRadiusOf(mainRc)
  /\ capture = FALSE
  /\ m_paintFlags = AllAreasFlag
  /\ stop = FALSE
  /\ pc = "idle"
  /\ pos = NoFrame
  /\ surface = [main |-> [p \in MainPixels |-> {}],
                bottom |-> [x \in BottomColumns |-> FALSE]]
  /\ call = [op |-> "none"]

Next ==
  \/ StartPaint
  \/ RequestStop
  \/ MainTest \/ MainRows \/ MainRow \/ MainDone \/ MainXor
  \/ BottomTest \/ BottomColumnsLoop \/ BottomDone \/ BottomXor
  \/ ColorSelector_onPaintSurfaceInBgThread
  \/ ToggleDiscrete
  \/ SwitchColorModel
  \/ ChooseHarmony

Spec == Init /\ [][Next]_vars

NextPass ==
  \/ StartPaint
  \/ RequestStop
  \/ MainTest \/ MainRows \/ MainRow \/ MainDone \/ MainXor
  \/ BottomTest \/ BottomColumnsLoop \/ BottomDone \/ BottomXor
  \/ ColorSelector_onPaintSurfaceInBgThread
  \/ (pc = "idle" /\ ToggleDiscrete)
  \/ (pc = "idle" /\ SwitchColorModel)
  \/ (pc = "idle" /\ ChooseHarmony)

SpecPass == Init /\ [][NextPass]_vars

\* the region a position of the pass belongs to
MainRegion == {"main_rows", "main_row", "main_done"}

BottomRegion == {"bottom_columns", "bottom_done"}

\* C6: a region's dirty flag is cleared only by the pass, after it has written
\* every pixel (column) of the region and has seen stop false; once stop is
\* true inside a region nothing more is written, no flag changes, and the
\* pass returns with that region's flag, and the flags of the regions not yet
\* started, still set; clearing one flag leaves the other flags alone.
FlagClearedOnlyAfterFullPass ==
  [][ /\ (MainAreaFlag \in m_paintFlags /\ MainAreaFlag \notin m_paintFlags')
           => /\ pc = "main_xor"
              /\ pos.written = MainPixels
              /\ m_paintFlags' = m_paintFlags \ {MainAreaFlag}
      /\ (BottomBarFlag \in m_paintFlags /\ BottomBarFlag \notin m_paintFlags')
           => /\ pc = "bottom_xor"
              /\ pos.written = BottomColumns
              /\ m_paintFlags' = m_paintFlags \ {BottomBarFlag}
      /\ (stop /\ pc \in MainRegion \cup BottomRegion)
           => /\ m_paintFlags' = m_paintFlags
              /\ surface' = surface
              /\ pc' \in MainRegion \cup BottomRegion \cup {"idle"}
      /\ (pc \in MainRegion /\ pc' = "idle")
           => stop /\ MainAreaFlag \in m_paintFlags' /\ m_paintFlags' = m_paintFlags
      /\ (pc \in BottomRegion /\ pc' = "idle")
           => stop /\ BottomBarFlag \in m_paintFlags' /\ m_paintFlags' = m_paintFlags
    ]_vars

\* a pass has cleared the main area's flag after writing all of it and has
\* then been stopped in the bottom bar, whose flag is still set
FlagClearedWitness ==
  /\ pc = "idle"
  /\ stop
  /\ MainAreaFlag \notin m_paintFlags
  /\ BottomBarFlag \in m_paintFlags
  /\ \A p \in MainPixels : surface.main[p] # {}
  /\ \E x \in BottomColumns : surface.bottom[x]

\* C9: no dirty mark of setDiscrete is lost to the pass: when the pass has
\* ended, either the main area's flag is set or every pixel of the main area
\* has been rasterized with the current discrete setting.
NoDirtyMarkLost ==
  (pc = "idle" /\ MainAreaFlag \notin m_paintFlags)
    => \A p \in MainPixels : surface.main[p] = {m_discrete}

\* C10: a call that changes the discrete flag or the colour model returns
\* with the main area's flag set; a call that changes the harmony leaves the
\* flags as they were.
SettersLeaveMainAreaDirty ==
  [][ /\ (m_discrete' # m_discrete \/ m_colorModel' # m_colorModel)
           => MainAreaFlag \in m_paintFlags'
      /\ (m_harmony' # m_harmony) => m_paintFlags' = m_paintFlags
    ]_vars

====
